---- MODULE Spec2Model ----
(***************************************************************************)
(* prescription-sync-job: the `sync` command of src/app.py.                *)
(*                                                                         *)
(* One invocation clones a repository into a temporary directory, loads a  *)
(* YAML document from it, appends the commit SHA to content["spec"]        *)
(* ["release"] unless told not to, dumps the document and stores it on     *)
(* Ceph under "<bucket prefix>/<deployment name>/<prescription path>".     *)
(*                                                                         *)
(* Python values are modelled with object identity: a mapping is an object *)
(* on a heap and a value refers to it by id, so that two keys of a         *)
(* document that YAML aliases to one mapping share it, as they do after    *)
(* yaml.safe_load.  YAML text is modelled as a node tree (scalars with a   *)
(* style, sequences, mappings with an optional anchor, aliases).           *)
(***************************************************************************)
EXTENDS Integers, Sequences, FiniteSets, TLC

VARIABLES
    remote,                 \* the commits the remote repository may have at its head
    pc,                     \* per invocation: the line of sync() about to run
    no_release_adjustment,  \* per invocation: the -A flag
    environ,                \* per invocation: os.environ
    dir_name,               \* per invocation: the temporary directory
    sha,                    \* per invocation: repo.head.commit.hexsha
    content,                \* per invocation: the loaded (and stamped) document
    prescription,           \* per invocation: the dumped YAML text
    ceph,                   \* per invocation: the CephStore adapter
    prefix,                 \* per invocation: the prefix given to CephStore
    raised,                 \* per invocation: the exception that ended the run
    store,                  \* the remote object store: key -> blob
    before,                 \* history: the store before any invocation
    after,                  \* history: the invocations that had ended when this one began
    loaded,                 \* history: the document as safe_load returned it
    written,                \* history: the arguments of this run's store_blob call
    trail,                  \* history: the stages the run has entered, in order
    completed               \* history: invocations in the order their puts reached the store

vars == <<remote, pc, no_release_adjustment, environ, dir_name, sha, content,
          prescription, ceph, prefix, raised, store, before, after, loaded, written,
          trail, completed>>

-----------------------------------------------------------------------------
(* Bounds *)

\* Commits of the remote repository's history a single invocation may clone.
MaxCommits == 15

\* Commits of the remote repository's history two racing invocations may clone.
RaceCommits == 3

-----------------------------------------------------------------------------
(* YAML text *)

Plain(s) == [n |-> "scalar", style |-> "plain", text |-> s]

Quoted(s) == [n |-> "scalar", style |-> "quoted", text |-> s]

SeqNode(items) == [n |-> "seq", items |-> items]

\* anchor 0: the mapping carries no anchor
MapNode(a, entries) == [n |-> "map", anchor |-> a, entries |-> entries]

Alias(a) == [n |-> "alias", anchor |-> a]

\* Plain scalars the YAML 1.1 resolver reads as null.
NullTexts == {"null", "~", ""}

\* Plain scalars the YAML 1.1 resolver reads as a float.
FloatTexts == {"1.0", "2.5"}

\* The keys used by the documents of the model, in the order safe_dump sorts them.
KeyOrder == <<"backup", "major", "name", "release", "spec", "units">>

-----------------------------------------------------------------------------
(* Python values *)

None == [t |-> "none"]

Str(s) == [t |-> "str", v |-> s]

Float(s) == [t |-> "float", v |-> s]

List(items) == [t |-> "list", v |-> items]

Ref(id) == [t |-> "ref", id |-> id]

\* A local variable that is not bound.
Unbound == [root |-> [t |-> "unbound"], heap |-> <<>>]

\* yaml.safe_load: a plain scalar is resolved by its text, a quoted one is a str.
ResolveScalar(node) ==
    IF node.style = "quoted" THEN Str(node.text)
    ELSE IF node.text \in NullTexts THEN None
    ELSE IF node.text \in FloatTexts THEN Float(node.text)
    ELSE Str(node.text)

RECURSIVE Construct(_, _)
RECURSIVE ConstructPairs(_, _, _, _)

\* The constructor: one Python object per mapping node, an alias yields the
\* object of its anchor.  st = [heap, anchors].
Construct(node, st) ==
    CASE node.n = "scalar" ->
            [val |-> ResolveScalar(node), heap |-> st.heap, anchors |-> st.anchors]
      [] node.n = "seq" ->
            [val |-> List(node.items), heap |-> st.heap, anchors |-> st.anchors]
      [] node.n = "alias" ->
            [val |-> Ref(st.anchors[node.anchor]), heap |-> st.heap, anchors |-> st.anchors]
      [] node.n = "map" ->
            LET id == Len(st.heap) + 1
                st1 == [heap |-> Append(st.heap, <<>>),
                        anchors |-> IF node.anchor = 0 THEN st.anchors
                                    ELSE (node.anchor :> id) @@ st.anchors]
                st2 == ConstructPairs(node.entries, 1, id, st1)
            IN [val |-> Ref(id), heap |-> st2.heap, anchors |-> st2.anchors]

ConstructPairs(entries, i, id, st) ==
    IF i > Len(entries) THEN st
    ELSE LET r == Construct(entries[i][2], st)
             obj == (entries[i][1] :> r.val) @@ r.heap[id]
         IN ConstructPairs(entries, i + 1, id,
                           [heap |-> [r.heap EXCEPT ![id] = obj], anchors |-> r.anchors])

\* yaml.safe_load of a well-formed stream; an empty stream loads as None.
SafeLoad(text) ==
    IF text = <<>> THEN [root |-> None, heap |-> <<>>]
    ELSE LET r == Construct(text[1], [heap |-> <<>>, anchors |-> <<>>])
         IN [root |-> r.val, heap |-> r.heap]

\* How many places of the document hold object id.
RefCount(doc, id) ==
    (IF doc.root = Ref(id) THEN 1 ELSE 0)
    + Cardinality({<<o, k>> \in (DOMAIN doc.heap) \X {KeyOrder[i] : i \in DOMAIN KeyOrder} :
                      k \in DOMAIN doc.heap[o] /\ doc.heap[o][k] = Ref(id)})

SortedKeys(obj) == SelectSeq(KeyOrder, LAMBDA k : k \in DOMAIN obj)

\* The representer's choice of style for a str: quoted when the plain text
\* would be resolved as something else.
RepresentStr(s) ==
    IF s \in NullTexts \cup FloatTexts THEN Quoted(s) ELSE Plain(s)

RECURSIVE Represent(_, _, _)
RECURSIVE RepresentPairs(_, _, _, _, _)

\* The representer and serializer: keys sorted, an object held in several
\* places gets an anchor where it is first written and an alias afterwards.
\* st = [done: id -> anchor, next: the next anchor number].
Represent(val, doc, st) ==
    CASE val.t = "none" -> [node |-> Plain("null"), st |-> st]
      [] val.t = "str" -> [node |-> RepresentStr(val.v), st |-> st]
      [] val.t = "float" -> [node |-> Plain(val.v), st |-> st]
      [] val.t = "list" -> [node |-> SeqNode(val.v), st |-> st]
      [] val.t = "ref" ->
            IF val.id \in DOMAIN st.done
            THEN [node |-> Alias(st.done[val.id]), st |-> st]
            ELSE LET shared == RefCount(doc, val.id) > 1
                     a == IF shared THEN st.next ELSE 0
                     st1 == [done |-> (val.id :> a) @@ st.done,
                             next |-> IF shared THEN st.next + 1 ELSE st.next]
                     r == RepresentPairs(SortedKeys(doc.heap[val.id]), 1, val.id, doc,
                                         [entries |-> <<>>, st |-> st1])
                 IN [node |-> MapNode(a, r.entries), st |-> r.st]

RepresentPairs(keys, i, id, doc, acc) ==
    IF i > Len(keys) THEN acc
    ELSE LET r == Represent(doc.heap[id][keys[i]], doc, acc.st)
         IN RepresentPairs(keys, i + 1, id, doc,
                           [entries |-> Append(acc.entries, <<keys[i], r.node>>),
                            st |-> r.st])

\* yaml.safe_dump: a stream of one document.
SafeDump(doc) ==
    <<Represent(doc.root, doc, [done |-> <<>>, next |-> 1]).node>>

RECURSIVE PyRepr(_, _)
RECURSIVE PyReprItems(_, _, _, _)

\* repr() of a value (a dict in key order: the nested mappings of the model
\* have one key, so insertion order and key order agree).
PyRepr(val, doc) ==
    CASE val.t = "none" -> "None"
      [] val.t = "str" -> "'" \o val.v \o "'"
      [] val.t = "float" -> val.v
      [] val.t = "list" ->
            "[" \o PyReprItems([i \in DOMAIN val.v |-> "'" \o val.v[i] \o "'"], 1, "", doc) \o "]"
      [] val.t = "ref" ->
            LET obj == doc.heap[val.id]
                keys == SelectSeq(KeyOrder, LAMBDA k : k \in DOMAIN obj)
            IN "{" \o PyReprItems([i \in DOMAIN keys |->
                                      "'" \o keys[i] \o "': " \o PyRepr(obj[keys[i]], doc)],
                                  1, "", doc) \o "}"

PyReprItems(items, i, acc, doc) ==
    IF i > Len(items) THEN acc
    ELSE PyReprItems(items, i + 1,
                     IF i = 1 THEN items[i] ELSE acc \o ", " \o items[i], doc)

\* format(value, ""), what an f-string field yields: str(value).
PyStr(val, doc) ==
    IF val.t = "str" THEN val.v ELSE PyRepr(val, doc)

-----------------------------------------------------------------------------
(* The remote repository *)

\* --prescription-path, at its default.
PrescriptionPath == "prescription.yaml"

Text(node) == [kind |-> "text", stream |-> <<node>>]

EmptyText == [kind |-> "text", stream |-> <<>>]

Malformed == [kind |-> "malformed", stream |-> <<>>]

Absent == [kind |-> "absent", stream |-> <<>>]

SpecDoc(specEntries) ==
    Text(MapNode(0, << <<"units", SeqNode(<<"boots">>)>>,
                       <<"spec", MapNode(0, specEntries)>>,
                       <<"name", Plain("demo")>> >>))

\* The history of the remote repository: each commit with the file it holds
\* at PrescriptionPath.
History ==
    << [sha |-> "abcdef1", file |-> SpecDoc(<< <<"release", Quoted("1.0.0")>>,
                                               <<"name", Plain("thoth")>> >>)],
       [sha |-> "0c0ffee", file |-> Text(MapNode(0,
                    << <<"spec", MapNode(7, << <<"release", Plain("2021.03.01")>> >>)>>,
                       <<"backup", Alias(7)>> >>))],
       [sha |-> "5ca1ab1", file |-> SpecDoc(<< <<"name", Plain("thoth")>> >>)],
       [sha |-> "deadbee", file |-> Text(MapNode(0, << <<"name", Plain("demo")>> >>))],
       [sha |-> "f005ba1", file |-> SpecDoc(<< <<"release", Plain("~")>> >>)],
       [sha |-> "ba5eba1", file |-> SpecDoc(<< <<"release",
                                      MapNode(0, << <<"major", Quoted("1")>> >>)>> >>)],
       [sha |-> "0ddba11", file |-> SpecDoc(<< <<"release", SeqNode(<<"rc1">>)>> >>)],
       [sha |-> "ca11ab1", file |-> SpecDoc(<< <<"release", Plain("1.0")>> >>)],
       [sha |-> "d15ea5e", file |-> SpecDoc(<< <<"release", Quoted("2.5")>> >>)],
       [sha |-> "0b5e55e", file |-> EmptyText],
       [sha |-> "7e1e7a1", file |-> Text(SeqNode(<<"boots">>))],
       [sha |-> "acce55e", file |-> Text(MapNode(0, << <<"spec", Plain("stable")>> >>))],
       [sha |-> "badc0de", file |-> Malformed],
       [sha |-> "facade5", file |-> Absent],
       [sha |-> "5eed5ed", file |-> Text(MapNode(0, << <<"spec", Plain("null")>> >>))],
       [sha |-> "1eaf1e7", file |-> SpecDoc(<< <<"release", Plain("0.2.0")>> >>)] >>

Remote(n) == {History[i] : i \in 1..n}

\* The file a clone of commit c holds at PrescriptionPath.
CheckedOut(c) == (CHOOSE h \in Remote(Len(History)) : h.sha = c).file

-----------------------------------------------------------------------------
(* The environment *)

BUCKET == "THOTH_CEPH_BUCKET_PREFIX"

DEPLOYMENT == "THOTH_DEPLOYMENT_NAME"

Environments ==
    { (BUCKET :> "data") @@ (DEPLOYMENT :> "stage"),
      (BUCKET :> "data") @@ (DEPLOYMENT :> "test"),
      (BUCKET :> "data") }

\* A blob some earlier run left in the store.
OldBlob == <<Plain("old")>>

NoCeph == [prefix |-> "", connected |-> FALSE]

NoException == [exc |-> "", line |-> ""]

NoCall == [key |-> "", blob |-> <<>>]

Procs == {1, 2}

-----------------------------------------------------------------------------
(* sync() *)

\* Succ with the stamping statement left out of the sequence.
SuccSkipsStamp(l) ==
    CASE l = "Idle" -> "L106"
      [] l = "L106" -> "L108"
      [] l = "L108" -> "L112"
      [] l = "L112" -> "L118"
      [] l = "L115" -> "L118"
      [] l = "L118" -> "L120"
      [] l = "L120" -> "L123"
      [] l = "L123" -> "L124"
      [] l = "L124" -> "L125"
      [] l = "L125" -> "Done"

\* The statements of sync() in program order: the one that follows l.
Succ(l) ==
    CASE l = "Idle" -> "L106"
      [] l = "L106" -> "L108"
      [] l = "L108" -> "L112"
      [] l = "L112" -> "L115"
      [] l = "L115" -> "L118"
      [] l = "L118" -> "L120"
      [] l = "L120" -> "L123"
      [] l = "L123" -> "L124"
      [] l = "L124" -> "L125"
      [] l = "L125" -> "Done"

\* Handler with the stamping statement wrapped in try/except: pass.
HandlerSwallow(l) == IF l = "L115" THEN "L118" ELSE "Failed"

\* Where control goes when the statement at l raises: sync() catches
\* nothing, the exception ends the run.
Handler(l) == "Failed"

\* The stage of the pipeline a statement belongs to.
Stage(l) ==
    CASE l = "Idle" -> "Idle"
      [] l \in {"L106", "L108"} -> "Cloning"
      [] l = "L112" -> "Loading"
      [] l = "L115" -> "Stamping"
      [] l \in {"L118", "L120", "L123", "L124", "L125"} -> "Publishing"
      [] l = "Done" -> "Done"
      [] l = "Failed" -> "Failed"

\* Control moves to line l.
Goto(p, l) ==
    /\ pc' = [pc EXCEPT ![p] = l]
    /\ trail' = [trail EXCEPT ![p] =
                    IF Stage(l) = Stage(pc[p]) THEN @ ELSE Append(@, Stage(l))]

\* Cleanup for a directory made with mkdtemp() and never removed.
CleanupLeak(d) == d

\* TemporaryDirectory.__exit__: the directory is removed.
Cleanup(d) == IF d = "exists" THEN "removed" ELSE d

\* The statement at pc[p] raises exc; leaving the with block on the way out
\* removes the directory.
Raise(p, exc) ==
    /\ Goto(p, Handler(pc[p]))
    /\ raised' = [raised EXCEPT ![p] = [exc |-> exc, line |-> pc[p]]]
    /\ dir_name' = [dir_name EXCEPT ![p] = Cleanup(@)]

\* The statement at pc[p] returns.
Continue(p) ==
    /\ Goto(p, Succ(pc[p]))
    /\ UNCHANGED raised

\* Before any invocation, with the first n commits of the history clonable.
InitWith(n) ==
    /\ remote = Remote(n)
    /\ pc = [p \in Procs |-> "Idle"]
    /\ no_release_adjustment = [p \in Procs |-> FALSE]
    /\ environ = [p \in Procs |-> <<>>]
    /\ dir_name = [p \in Procs |-> ""]
    /\ sha = [p \in Procs |-> ""]
    /\ content = [p \in Procs |-> Unbound]
    /\ prescription = [p \in Procs |-> <<>>]
    /\ ceph = [p \in Procs |-> NoCeph]
    /\ prefix = [p \in Procs |-> ""]
    /\ raised = [p \in Procs |-> NoException]
    /\ store \in {<<>>, ("data/stage/" \o PrescriptionPath) :> OldBlob}
    /\ before = store
    /\ after = [p \in Procs |-> {}]
    /\ loaded = [p \in Procs |-> Unbound]
    /\ written = [p \in Procs |-> NoCall]
    /\ trail = [p \in Procs |-> <<"Idle">>]
    /\ completed = <<>>

Init == InitWith(MaxCommits)

\* The command is invoked with its options and environment.
Invoke(p) ==
    /\ pc[p] = "Idle"
    /\ \E flag \in BOOLEAN, env \in Environments :
          /\ no_release_adjustment' = [no_release_adjustment EXCEPT ![p] = flag]
          /\ environ' = [environ EXCEPT ![p] = env]
    /\ after' = [after EXCEPT ![p] = {q \in Procs : pc[q] \in {"Done", "Failed"}}]
    /\ Continue(p)
    /\ UNCHANGED <<remote, dir_name, sha, content, prescription, ceph, prefix, store,
                   before, loaded, written, completed>>

\* line 106: tempfile.TemporaryDirectory()
MakeTempDir(p) ==
    /\ pc[p] = "L106"
    /\ \/ /\ dir_name' = [dir_name EXCEPT ![p] = "exists"]
          /\ Continue(p)
       \/ Raise(p, "OSError")
    /\ UNCHANGED <<remote, no_release_adjustment, environ, sha, content, prescription,
                   ceph, prefix, store, before, after, loaded, written, completed>>

\* lines 108-109: Repo.clone_from(..., depth=1) and repo.head.commit.hexsha
Clone(p) ==
    /\ pc[p] = "L108"
    /\ \/ \E h \in remote :
             /\ sha' = [sha EXCEPT ![p] = h.sha]
             /\ Continue(p)
             /\ UNCHANGED dir_name
       \/ /\ Raise(p, "GitCommandError")
          /\ UNCHANGED sha
       \/ /\ Raise(p, "ValueError")
          /\ UNCHANGED sha
    /\ UNCHANGED <<remote, no_release_adjustment, environ, content, prescription,
                   ceph, prefix, store, before, after, loaded, written, completed>>

\* lines 112-113: open() and yaml.safe_load(), then the with block is left
Load(p) ==
    /\ pc[p] = "L112"
    /\ LET file == CheckedOut(sha[p]) IN
          \/ /\ file.kind = "text"
             /\ content' = [content EXCEPT ![p] = SafeLoad(file.stream)]
             /\ loaded' = [loaded EXCEPT ![p] = SafeLoad(file.stream)]
             /\ dir_name' = [dir_name EXCEPT ![p] = Cleanup(@)]
             /\ Continue(p)
          \/ /\ file.kind = "absent"
             /\ Raise(p, "FileNotFoundError")
             /\ UNCHANGED <<content, loaded>>
          \/ /\ file.kind = "malformed"
             /\ Raise(p, "YAMLError")
             /\ UNCHANGED <<content, loaded>>
    /\ UNCHANGED <<remote, no_release_adjustment, environ, sha, prescription,
                   ceph, prefix, store, before, after, written, completed>>

\* ShouldStamp with the flag ignored: the release is always adjusted.
ShouldStampAlways(flag) == TRUE

\* ShouldStamp with the flag ignored: the release is never adjusted.
ShouldStampNever(flag) == FALSE

\* line 115: if not no_release_adjustment
ShouldStamp(flag) == ~flag

\* What content["spec"]["release"] does: "ok", or the exception it raises.
Subscript(doc) ==
    IF doc.root.t # "ref" THEN "TypeError"
    ELSE LET top == doc.heap[doc.root.id] IN
         IF "spec" \notin DOMAIN top THEN "KeyError"
         ELSE IF top["spec"].t # "ref" THEN "TypeError"
         ELSE IF "release" \notin DOMAIN doc.heap[top["spec"].id] THEN "KeyError"
         ELSE "ok"

\* line 116: content["spec"]["release"] = f"{content['spec']['release']}.{sha}"
Stamped(doc, c) ==
    LET id == doc.heap[doc.root.id]["spec"].id
        old == doc.heap[id]["release"]
    IN [doc EXCEPT !.heap[id]["release"] = Str(PyStr(old, doc) \o "." \o c)]

\* lines 115-116
Stamp(p) ==
    /\ pc[p] = "L115"
    /\ IF ~ShouldStamp(no_release_adjustment[p])
       THEN /\ Continue(p)
            /\ UNCHANGED <<content, dir_name>>
       ELSE IF Subscript(content[p]) = "ok"
       THEN /\ content' = [content EXCEPT ![p] = Stamped(@, sha[p])]
            /\ Continue(p)
            /\ UNCHANGED dir_name
       ELSE /\ Raise(p, Subscript(content[p]))
            /\ UNCHANGED content
    /\ UNCHANGED <<remote, no_release_adjustment, environ, sha, prescription,
                   ceph, prefix, store, before, after, loaded, written, completed>>

\* line 118: yaml.safe_dump(content)
Dump(p) ==
    /\ pc[p] = "L118"
    /\ prescription' = [prescription EXCEPT ![p] = SafeDump(content[p])]
    /\ Continue(p)
    /\ UNCHANGED <<remote, no_release_adjustment, environ, dir_name, sha, content,
                   ceph, prefix, store, before, after, loaded, written, completed>>

\* line 120: the f-string over os.environ, when both variables are set
Prefix(env) == env[BUCKET] \o "/" \o env[DEPLOYMENT]

\* line 120: os.environ[...] raises KeyError for a variable that is not set
MakePrefix(p) ==
    /\ pc[p] = "L120"
    /\ IF {BUCKET, DEPLOYMENT} \subseteq DOMAIN environ[p]
       THEN /\ prefix' = [prefix EXCEPT ![p] = Prefix(environ[p])]
            /\ Continue(p)
            /\ UNCHANGED dir_name
       ELSE /\ Raise(p, "KeyError")
            /\ UNCHANGED prefix
    /\ UNCHANGED <<remote, no_release_adjustment, environ, sha, content, prescription,
                   ceph, store, before, after, loaded, written, completed>>

\* NewAdapter for an adapter that reports itself connected from the start.
NewAdapterConnected(pfx) == [prefix |-> pfx, connected |-> TRUE]

\* CephStore.__init__: the adapter is created unconnected.
NewAdapter(pfx) == [prefix |-> pfx, connected |-> FALSE]

\* line 123: CephStore(prefix); the adapter reads its own settings from the
\* environment and raises KeyError when one is missing
NewCephStore(p) ==
    /\ pc[p] = "L123"
    /\ \/ /\ ceph' = [ceph EXCEPT ![p] = NewAdapter(prefix[p])]
          /\ Continue(p)
          /\ UNCHANGED dir_name
       \/ /\ Raise(p, "KeyError")
          /\ UNCHANGED ceph
    /\ UNCHANGED <<remote, no_release_adjustment, environ, sha, content, prescription,
                   prefix, store, before, after, loaded, written, completed>>

\* line 124: ceph.connect()
Connect(p) ==
    /\ pc[p] = "L124"
    /\ \/ /\ ceph' = [ceph EXCEPT ![p].connected = TRUE]
          /\ Continue(p)
          /\ UNCHANGED dir_name
       \/ /\ Raise(p, "ConnectionError")
          /\ UNCHANGED ceph
    /\ UNCHANGED <<remote, no_release_adjustment, environ, sha, content, prescription,
                   prefix, store, before, after, loaded, written, completed>>

\* CephStore.store_blob: the object key under the adapter's prefix
ObjectKey(pfx, path) == pfx \o "/" \o path

\* Put that appends to the object already at key.
PutAppend(s, key, blob) ==
    (key :> (IF key \in DOMAIN s THEN s[key] \o blob ELSE blob)) @@ s

\* Put that keeps the object already at key.
PutIfAbsent(s, key, blob) == s @@ (key :> blob)

\* The store after a put of blob at key: the object is replaced whole.
Put(s, key, blob) == (key :> blob) @@ s

\* line 125: ceph.store_blob(prescription, prescription_path); when the call
\* raises, the put may or may not have reached the store
StoreBlob(p) ==
    /\ pc[p] = "L125"
    /\ LET key == ObjectKey(ceph[p].prefix, PrescriptionPath) IN
          /\ written' = [written EXCEPT ![p] = [key |-> key, blob |-> prescription[p]]]
          /\ \/ /\ store' = Put(store, key, prescription[p])
                /\ completed' = Append(completed, p)
                /\ Continue(p)
                /\ UNCHANGED dir_name
             \/ /\ store' = Put(store, key, prescription[p])
                /\ completed' = Append(completed, p)
                /\ Raise(p, "ClientError")
             \/ /\ Raise(p, "ClientError")
                /\ UNCHANGED <<store, completed>>
    /\ UNCHANGED <<remote, no_release_adjustment, environ, sha, content, prescription,
                   ceph, prefix, before, after, loaded>>

Step(p) ==
    \/ Invoke(p)
    \/ MakeTempDir(p)
    \/ Clone(p)
    \/ Load(p)
    \/ Stamp(p)
    \/ Dump(p)
    \/ MakePrefix(p)
    \/ NewCephStore(p)
    \/ Connect(p)
    \/ StoreBlob(p)

\* One invocation of sync.
Next == Step(1)

Spec == Init /\ [][Next]_vars

\* Two invocations of sync, their steps interleaved.
InitTwo == InitWith(RaceCommits)

NextTwo == \E p \in Procs : Step(p)

SpecTwo == InitTwo /\ [][NextTwo]_vars

-----------------------------------------------------------------------------
(* Reading documents *)

Keys == {KeyOrder[i] : i \in DOMAIN KeyOrder}

Paths == {<<>>} \cup {<<k>> : k \in Keys} \cup {<<k, j>> : k \in Keys, j \in Keys}

Missing == [t |-> "missing"]

Get(val, k, doc) ==
    IF val.t = "ref" /\ k \in DOMAIN doc.heap[val.id] THEN doc.heap[val.id][k] ELSE Missing

\* The value of the document at a path of keys, Missing when there is none.
At(doc, path) ==
    IF Len(path) = 0 THEN doc.root
    ELSE IF Len(path) = 1 THEN Get(doc.root, path[1], doc)
    ELSE Get(Get(doc.root, path[1], doc), path[2], doc)

Release(doc) == At(doc, <<"spec", "release">>)

RECURSIVE Tree(_, _)

\* The document as a tree of values, object identity forgotten.
Tree(val, doc) ==
    IF val.t = "ref"
    THEN [t |-> "map", m |-> [k \in DOMAIN doc.heap[val.id] |-> Tree(doc.heap[val.id][k], doc)]]
    ELSE val

TreeOf(doc) == Tree(doc.root, doc)

\* Which paths of the document hold one and the same mapping.
Sharing(doc) ==
    {{path \in Paths : At(doc, path) = Ref(id)} : id \in DOMAIN doc.heap} \ {{}}

\* Two documents with the same fields, the same values and the same aliases.
SameDocument(d1, d2) == TreeOf(d1) = TreeOf(d2) /\ Sharing(d1) = Sharing(d2)

\* The document this run handed to store_blob, read back.
Published(p) == SafeLoad(written[p].blob)

Ended(p) == pc[p] \in {"Done", "Failed"}

Last(seq) == seq[Len(seq)]

-----------------------------------------------------------------------------
(* The error taxonomy *)

ErrorKinds ==
    {"RepositoryUnavailable", "RepositoryCorrupt", "DocumentNotFound", "DocumentMalformed",
     "FieldMissing", "StoreUnavailable", "PublishFailed"}

\* The kind of a failure, from the statement that raised and what it raised.
ErrorKind(e) ==
    CASE e.line \in {"L106", "L108"} ->
            IF e.exc = "ValueError" THEN "RepositoryCorrupt" ELSE "RepositoryUnavailable"
      [] e.line = "L112" ->
            IF e.exc = "YAMLError" THEN "DocumentMalformed" ELSE "DocumentNotFound"
      [] e.line = "L115" -> "FieldMissing"
      [] e.line \in {"L118", "L120", "L123", "L124"} -> "StoreUnavailable"
      [] e.line = "L125" -> "PublishFailed"
      [] OTHER -> "none"

\* The stage each kind belongs to.
KindStage(k) ==
    CASE k \in {"RepositoryUnavailable", "RepositoryCorrupt"} -> "Cloning"
      [] k \in {"DocumentNotFound", "DocumentMalformed"} -> "Loading"
      [] k = "FieldMissing" -> "Stamping"
      [] k \in {"StoreUnavailable", "PublishFailed"} -> "Publishing"
      [] OTHER -> "none"

-----------------------------------------------------------------------------
(* Properties *)

\* C1: a run with stamping enabled that reaches Done, having loaded a
\* document with spec.release = R (a string) from commit C, writes a document
\* whose spec.release is R, a dot, C, every other field being as loaded.
C1_StampOnlyRelease ==
    \A p \in Procs :
        (pc[p] = "Done" /\ ~no_release_adjustment[p] /\ Release(loaded[p]).t = "str")
        => /\ Release(Published(p)) = Str(Release(loaded[p]).v \o "." \o sha[p])
           /\ TreeOf(Published(p)) =
                 [TreeOf(loaded[p]) EXCEPT !.m["spec"].m["release"] =
                     Str(Release(loaded[p]).v \o "." \o sha[p])]

\* C2: a run with stamping disabled that reaches Done writes the document it
\* loaded: same fields, same values, spec.release included, whatever the commit.
C2_DisabledIsIdentity ==
    \A p \in Procs :
        (pc[p] = "Done" /\ no_release_adjustment[p])
        => /\ SameDocument(Published(p), loaded[p])
           /\ written[p].key \in DOMAIN store
           /\ store[written[p].key] = written[p].blob

C2_Witness ==
    /\ pc[1] = "Done"
    /\ no_release_adjustment[1]
    /\ Release(loaded[1]) = Str("2.5")
    /\ Release(Published(1)) = Str("2.5")
    /\ written[1].blob # CheckedOut(sha[1]).stream

\* C3: a run with stamping enabled whose loaded document has no spec.release
\* goes no further than the stamping statement: it ends Failed there with
\* FieldMissing, store_blob is not called and the store is as it was.
C3_MissingReleaseFails ==
    \A p \in Procs :
        (~no_release_adjustment[p] /\ loaded[p] # Unbound /\ Release(loaded[p]) = Missing)
        => /\ pc[p] \in {"L115", "Failed"}
           /\ pc[p] = "Failed" =>
                 /\ raised[p].line = "L115"
                 /\ raised[p].exc \in {"KeyError", "TypeError"}
                 /\ ErrorKind(raised[p]) = "FieldMissing"
           /\ written[p] = NoCall
           /\ store = before

C3_Witness ==
    /\ pc[1] = "Failed"
    /\ ~no_release_adjustment[1]
    /\ At(loaded[1], <<"spec">>).t = "ref"
    /\ Release(loaded[1]) = Missing
    /\ raised[1] = [exc |-> "KeyError", line |-> "L115"]

\* C4: when a run has ended, Done or Failed at any statement, its temporary
\* directory does not exist.
C4_TempDirRemoved ==
    \A p \in Procs : Ended(p) => dir_name[p] # "exists"

C4_Witness ==
    /\ pc[1] = "Failed"
    /\ raised[1].line = "L124"
    /\ dir_name[1] = "removed"

\* C5: a run in which cloning, loading or stamping raised has ended Failed at
\* that stage, entered no later stage, made no adapter, no connection and no
\* store_blob call, and the store is as it was.
C5_EarlyFailurePublishesNothing ==
    \A p \in Procs :
        raised[p].line \in {"L106", "L108", "L112", "L115"}
        => /\ pc[p] = "Failed"
           /\ Last(trail[p]) = "Failed"
           /\ trail[p][Len(trail[p]) - 1] = Stage(raised[p].line)
           /\ \A i \in DOMAIN trail[p] : trail[p][i] \notin {"Publishing", "Done"}
           /\ ceph[p] = NoCeph
           /\ written[p] = NoCall
           /\ store = before

C5_Witness ==
    /\ pc[1] = "Failed"
    /\ raised[1] = [exc |-> "YAMLError", line |-> "L112"]
    /\ before # <<>>
    /\ store = before

\* C6: two runs, one begun after the other ended, both Done, of the same
\* commit with the same flag and the same environment, made the same
\* store_blob call (same key, same bytes); the store then holds that blob at
\* the key and no key it did not hold before besides it.
C6_IdempotentOverwrite ==
    \A p \in Procs, q \in Procs :
        (/\ p \in after[q]
         /\ pc[p] = "Done" /\ pc[q] = "Done"
         /\ sha[p] = sha[q]
         /\ no_release_adjustment[p] = no_release_adjustment[q]
         /\ environ[p] = environ[q])
        => /\ written[p] = written[q]
           /\ written[q].key = Prefix(environ[q]) \o "/" \o PrescriptionPath
           /\ store[written[q].key] = written[q].blob
           /\ DOMAIN store = DOMAIN before \cup {written[q].key}

C6_Witness ==
    /\ 1 \in after[2]
    /\ pc[1] = "Done" /\ pc[2] = "Done"
    /\ sha[1] = sha[2] /\ sha[1] = "abcdef1"
    /\ ~no_release_adjustment[1] /\ ~no_release_adjustment[2]
    /\ environ[1] = environ[2]
    /\ written[2].key \in DOMAIN before
    /\ store[written[2].key] = written[2].blob

StageOrder == <<"Idle", "Cloning", "Loading", "Stamping", "Publishing", "Done">>

\* C8: the stages a run has entered are an initial part of Idle, Cloning,
\* Loading, Stamping, Publishing, Done, none skipped or repeated, followed at
\* most by Failed entered from Cloning, Loading, Stamping or Publishing; the
\* run is in the last of them, and nothing follows Done or Failed.
C8_StageOrder ==
    \A p \in Procs :
        /\ Stage(pc[p]) = Last(trail[p])
        /\ \E k \in 1..Len(StageOrder) :
              \/ trail[p] = SubSeq(StageOrder, 1, k)
              \/ /\ k \in 2..5
                 /\ trail[p] = Append(SubSeq(StageOrder, 1, k), "Failed")

C8_Witness ==
    /\ trail[1] = StageOrder
    /\ pc[1] = "Done"

\* C9: a run with stamping enabled whose loaded spec.release exists but is
\* null, a mapping or a sequence ends Failed and writes nothing.
C9_NonStringReleaseFails ==
    \A p \in Procs :
        (Ended(p) /\ ~no_release_adjustment[p] /\ Release(loaded[p]).t \in {"none", "ref", "list"})
        => /\ pc[p] = "Failed"
           /\ ErrorKind(raised[p]) = "FieldMissing"
           /\ written[p] = NoCall

====
